---- MODULE Spec2Model ----
(***************************************************************************)
(* State-machine model of train_wavernn.py: the checkpoint pair protocol   *)
(* (save_checkpoint / restore_checkpoint) and the step-indexed training    *)
(* loop (main / voc_train_loop).                                           *)
(*                                                                         *)
(* An artifact is modelled by what it holds: the weights file holds the    *)
(* model's step counter, the optimizer file holds the optimizer's update   *)
(* counter; Absent stands for a path that does not exist.                  *)
(***************************************************************************)
EXTENDS Integers, Sequences, FiniteSets, TLC

VARIABLES
    store,            \* the files: identity -> [w: weights file, o: optimizer file]
    pc,               \* "off" | "running" | "done" | "error" | "api"
    step,             \* model.get_step() of the in-memory model
    optim,            \* in-memory optimizer state (number of updates applied)
    e,                \* current epoch of voc_train_loop (1-based)
    i,                \* iterations completed in the current epoch
    epochs,           \* the epoch count computed at loop entry
    total_steps,      \* hp.voc_total_steps (or 10_000_000 with --force_train)
    checkpoint_every, \* hp.voc_checkpoint_every
    total_iters,      \* len(train_set)
    call,             \* the handler that ran last and its arguments
    outcome,          \* how it ended
    events,           \* the file-system events it performed, in order
    last_saved        \* history: identity -> the pair its last save wrote

vars == <<store, pc, step, optim, e, i, epochs, total_steps, checkpoint_every,
          total_iters, call, outcome, events, last_saved>>

(***************************************************************************)
(* Bounds of the model                                                     *)
(***************************************************************************)
\* largest value of total_steps, in units
MaxT == 2
\* largest value of checkpoint_every, in units
MaxC == 2
\* largest value of len(train_set), in units
MaxN == 2
\* the large unit: run parameters are multiples of 1 or of BigUnit
BigUnit == 500
\* optimisation steps a caller of the checkpoint API performs at most
MaxApiStep == 1
\* largest torch.cuda.device_count()
MaxGpus == 2
\* largest --batch_size
MaxBatch == 33

(***************************************************************************)
(* Paths                                                                   *)
(***************************************************************************)
\* p.exists() is False
Absent == -1

\* f'wave_step{k}K'
ckpt_name(k) == "wave_step" \o ToString(k) \o "K"

\* step // 1000
StepK(s) == s \div 1000

\* name=None
NoName == ""

\* paths.voc_latest_weights / paths.voc_latest_optim
Latest == "latest"

MaxStep == (MaxT + MaxN) * BigUnit

NamedIds == {ckpt_name(k) : k \in 0..StepK(MaxStep)}

Ids == {Latest} \cup NamedIds

NoFiles == [id \in Ids |-> [w |-> Absent, o |-> Absent]]

\* the identity restore_checkpoint reads: the named pair if name, else latest
path_dict(name) == IF name # NoName THEN name ELSE Latest

\* sum(p.exists() for p in path_dict.values())
num_exist(st, id) ==
    (IF st[id].w # Absent THEN 1 ELSE 0) + (IF st[id].o # Absent THEN 1 ELSE 0)

Ev(op, id, f, v) == [op |-> op, id |-> id, f |-> f, v |-> v]

\* the store after the events evs, in order
RECURSIVE Apply(_, _)
Apply(st, evs) ==
    IF evs = <<>> THEN st
    ELSE LET ev == Head(evs)
             st1 == IF ev.op = "write"
                    THEN [st EXCEPT ![ev.id] = [@ EXCEPT ![ev.f] = ev.v]]
                    ELSE st
         IN Apply(st1, Tail(evs))

\* the value the events evs write to file f of identity id, Absent if none
RECURSIVE Written(_, _, _)
Written(evs, id, f) ==
    IF evs = <<>> THEN Absent
    ELSE LET ev == evs[Len(evs)] IN
         IF ev.op = "write" /\ ev.id = id /\ ev.f = f
         THEN ev.v
         ELSE Written(SubSeq(evs, 1, Len(evs) - 1), id, f)

\* the history after the events evs: an identity both of whose files were
\* written holds that pair, one with a single file written holds no pair
Track(ls, evs) ==
    [id \in Ids |->
        LET w == Written(evs, id, "w")
            o == Written(evs, id, "o")
        IN IF w = Absent /\ o = Absent THEN ls[id]
           ELSE IF w # Absent /\ o # Absent THEN [w |-> w, o |-> o]
           ELSE [w |-> Absent, o |-> Absent]]

(***************************************************************************)
(* save_checkpoint                                                         *)
(***************************************************************************)
\* helper without the optimizer write
helper_weights_only(st, id, m, o) ==
    LET n == num_exist(st, id) IN
    IF n \notin {0, 2}
    THEN [raised |-> TRUE, ev |-> <<>>]
    ELSE [raised |-> FALSE, ev |-> <<Ev("write", id, "w", m)>>]

\* helper without the both-or-none check
helper_unchecked(st, id, m, o) ==
    [raised |-> FALSE,
     ev |-> <<Ev("write", id, "w", m), Ev("write", id, "o", o)>>]

\* helper(path_dict, is_named): raises on a half-present pair, else writes
\* the weights and then the optimizer state
helper(st, id, m, o) ==
    LET n == num_exist(st, id) IN
    IF n \notin {0, 2}
    THEN [raised |-> TRUE, ev |-> <<>>]
    ELSE [raised |-> FALSE,
          ev |-> (IF n = 0
                  THEN <<Ev("mkdir", id, "w", Absent), Ev("mkdir", id, "o", Absent)>>
                  ELSE <<>>)
                 \o <<Ev("write", id, "w", m), Ev("write", id, "o", o)>>]

\* save_checkpoint that writes the named pair instead of the latest pair
save_checkpoint_named_only(st, name, m, o) ==
    LET l == helper(st, path_dict(name), m, o) IN
    IF l.raised
    THEN [outcome |-> "broken", ev |-> <<>>]
    ELSE [outcome |-> "saved", ev |-> l.ev]

\* save_checkpoint that writes the named pair before the latest pair
save_checkpoint_named_first(st, name, m, o) ==
    LET n == IF name = NoName
             THEN [raised |-> FALSE, ev |-> <<>>]
             ELSE helper(st, name, m, o) IN
    IF n.raised
    THEN [outcome |-> "broken", ev |-> <<>>]
    ELSE LET l == helper(Apply(st, n.ev), Latest, m, o) IN
         IF l.raised
         THEN [outcome |-> "broken", ev |-> n.ev]
         ELSE [outcome |-> "saved", ev |-> n.ev \o l.ev]

\* save_checkpoint(paths, model, optimizer, name=name)
save_checkpoint(st, name, m, o) ==
    LET l == helper(st, Latest, m, o) IN
    IF l.raised
    THEN [outcome |-> "broken", ev |-> <<>>]
    ELSE IF name = NoName
    THEN [outcome |-> "saved", ev |-> l.ev]
    ELSE LET n == helper(Apply(st, l.ev), name, m, o) IN
         IF n.raised
         THEN [outcome |-> "broken", ev |-> l.ev]
         ELSE [outcome |-> "saved", ev |-> l.ev \o n.ev]

(***************************************************************************)
(* restore_checkpoint                                                      *)
(***************************************************************************)
\* restore_checkpoint that creates whatever create_if_missing says
restore_always_creates(st, name, cim, m, o) ==
    LET id == path_dict(name) IN
    IF num_exist(st, id) = 2
    THEN [outcome |-> "restored",
          ev |-> <<Ev("load", id, "w", st[id].w), Ev("load", id, "o", st[id].o)>>,
          step |-> st[id].w, optim |-> st[id].o]
    ELSE LET s == save_checkpoint(st, name, m, o) IN
         [outcome |-> s.outcome, ev |-> s.ev, step |-> m, optim |-> o]

\* restore_checkpoint that creates the checkpoint of a fresh model
restore_creates_fresh(st, name, cim, m, o) ==
    LET id == path_dict(name) IN
    IF num_exist(st, id) = 2
    THEN [outcome |-> "restored",
          ev |-> <<Ev("load", id, "w", st[id].w), Ev("load", id, "o", st[id].o)>>,
          step |-> st[id].w, optim |-> st[id].o]
    ELSE IF cim
    THEN LET s == save_checkpoint(st, name, 0, 0) IN
         [outcome |-> s.outcome, ev |-> s.ev, step |-> 0, optim |-> 0]
    ELSE [outcome |-> "missing", ev |-> <<>>, step |-> m, optim |-> o]

\* restore_checkpoint that loads the weights and leaves the optimizer
restore_skips_optimizer(st, name, cim, m, o) ==
    LET id == path_dict(name) IN
    IF num_exist(st, id) = 2
    THEN [outcome |-> "restored",
          ev |-> <<Ev("load", id, "w", st[id].w)>>,
          step |-> st[id].w, optim |-> o]
    ELSE IF cim
    THEN LET s == save_checkpoint(st, name, m, o) IN
         [outcome |-> s.outcome, ev |-> s.ev, step |-> m, optim |-> o]
    ELSE [outcome |-> "missing", ev |-> <<>>, step |-> m, optim |-> o]

\* restore_checkpoint(paths, model, optimizer, name=name,
\*                    create_if_missing=cim)
restore_checkpoint(st, name, cim, m, o) ==
    LET id == path_dict(name) IN
    IF num_exist(st, id) = 2
    THEN [outcome |-> "restored",
          ev |-> <<Ev("load", id, "w", st[id].w), Ev("load", id, "o", st[id].o)>>,
          step |-> st[id].w, optim |-> st[id].o]
    ELSE IF cim
    THEN LET s == save_checkpoint(st, name, m, o) IN
         [outcome |-> s.outcome, ev |-> s.ev, step |-> m, optim |-> o]
    ELSE [outcome |-> "missing", ev |-> <<>>, step |-> m, optim |-> o]

\* the history follows the events of the handler
Tracked == last_saved' = Track(last_saved, events')

Call(op, name, cim, killed) ==
    [op |-> op, name |-> name, cim |-> cim, killed |-> killed]

\* the model's forward pass in training mode counts one step
forward_step(s) == s + 1

\* optimizer.step()
optimizer_step(o) == o + 1

(***************************************************************************)
(* The checkpoint API driven by an arbitrary caller                        *)
(***************************************************************************)
ApiNames == {NoName, ckpt_name(0), ckpt_name(1)}

RunIdle == UNCHANGED <<e, i, epochs, total_steps, checkpoint_every, total_iters>>

InitAPI ==
    /\ store = NoFiles
    /\ pc = "api"
    /\ step = 0
    /\ optim = 0
    /\ e = 0 /\ i = 0 /\ epochs = 0
    /\ total_steps = 0 /\ checkpoint_every = 1 /\ total_iters = 1
    /\ call = Call("new", NoName, FALSE, FALSE)
    /\ outcome = "ok"
    /\ events = <<>>
    /\ last_saved = store

\* a completed call of save_checkpoint
ApiSave ==
    \E name \in ApiNames :
        LET r == save_checkpoint(store, name, step, optim) IN
        /\ pc = "api"
        /\ store' = Apply(store, r.ev)
        /\ call' = Call("save", name, FALSE, FALSE)
        /\ outcome' = r.outcome
        /\ events' = r.ev
        /\ UNCHANGED <<pc, step, optim>>
        /\ RunIdle
        /\ Tracked

\* a completed call of restore_checkpoint
ApiRestore ==
    \E name \in ApiNames, cim \in BOOLEAN :
        LET r == restore_checkpoint(store, name, cim, step, optim) IN
        /\ pc = "api"
        /\ store' = Apply(store, r.ev)
        /\ step' = r.step
        /\ optim' = r.optim
        /\ call' = Call("restore", name, cim, FALSE)
        /\ outcome' = r.outcome
        /\ events' = r.ev
        /\ UNCHANGED pc
        /\ RunIdle
        /\ Tracked

\* one optimisation step of the caller's model
ApiTrain ==
    /\ pc = "api"
    /\ step < MaxApiStep
    /\ optim < MaxApiStep
    /\ step' = forward_step(step)
    /\ optim' = optimizer_step(optim)
    /\ call' = Call("train", NoName, FALSE, FALSE)
    /\ outcome' = "ok"
    /\ events' = <<>>
    /\ UNCHANGED <<store, pc>>
    /\ RunIdle
    /\ Tracked

\* the process is killed inside save_checkpoint, after k of its events; the
\* next process starts with a freshly constructed model and optimizer
ApiSaveKilled ==
    \E name \in ApiNames :
        LET r == save_checkpoint(store, name, step, optim) IN
        \E k \in 0..(Len(r.ev) - 1) :
            /\ pc = "api"
            /\ store' = Apply(store, SubSeq(r.ev, 1, k))
            /\ step' = 0
            /\ optim' = 0
            /\ call' = Call("save", name, FALSE, TRUE)
            /\ outcome' = "killed"
            /\ events' = SubSeq(r.ev, 1, k)
            /\ UNCHANGED pc
            /\ RunIdle
            /\ Tracked

NextAPI == ApiSave \/ ApiRestore \/ ApiTrain \/ ApiSaveKilled

SpecAPI == InitAPI /\ [][NextAPI]_vars

(***************************************************************************)
(* main and voc_train_loop                                                 *)
(***************************************************************************)
\* the epoch count without the extra epoch
voc_epochs_floor(total, cur, iters) == (total - cur) \div iters

\* epochs = (total_steps - model.get_step()) // total_iters + 1
voc_epochs(total, cur, iters) == (total - cur) \div iters + 1

\* range(1, epochs + 1): the number of epochs the loop runs
EpochsRun(ep) == IF ep >= 1 THEN ep ELSE 0

\* the gradient of one iteration: hp.voc_clip_grad_norm is None, or the
\* clipped norm is a number, or it is not-a-number
GradCases == {"noclip", "finite", "nan"}

\* an iteration that gives up the update when the norm is not-a-number
grad_step_skips_nan(g, o) ==
    [optim |-> IF g = "nan" THEN o ELSE optimizer_step(o),
     ev |-> IF g = "noclip" THEN <<>>
            ELSE IF g = "nan"
            THEN <<Ev("clip", NoName, "", o), Ev("warn", NoName, "", o)>>
            ELSE <<Ev("clip", NoName, "", o)>>]

\* clip_grad_norm_ when a threshold is configured, the printed warning when
\* the norm is not-a-number, then optimizer.step() in every case
grad_step(g, o) ==
    [optim |-> optimizer_step(o),
     ev |-> IF g = "noclip" THEN <<>>
            ELSE IF g = "nan"
            THEN <<Ev("clip", NoName, "", o), Ev("warn", NoName, "", o)>>
            ELSE <<Ev("clip", NoName, "", o)>>]

\* a loop that never takes the periodic checkpoint
never_checkpoint_step(s, every) == FALSE

\* if step % hp.voc_checkpoint_every == 0
is_checkpoint_step(s, every) == s % every = 0

\* the events of one loop iteration that ends with model step s and
\* optimizer state o: gen_testset, then save_checkpoint(name=ckpt_name)
iter_checkpoint(st, s, o, every) ==
    IF is_checkpoint_step(s, every)
    THEN LET r == save_checkpoint(st, ckpt_name(StepK(s)), s, o) IN
         [outcome |-> r.outcome, ev |-> <<Ev("gen", NoName, "", s)>> \o r.ev]
    ELSE [outcome |-> "ok", ev |-> <<>>]

\* an epoch boundary that saves only when the step is a checkpoint step
epoch_checkpoint_skipped(st, s, o) == [outcome |-> "saved", ev |-> <<>>]

\* the epoch-boundary save: save_checkpoint(paths, model, optimizer)
epoch_checkpoint(st, s, o) == save_checkpoint(st, NoName, s, o)

Units == {1, BigUnit}

Init ==
    /\ store = NoFiles
    /\ pc = "off"
    /\ step = 0
    /\ optim = 0
    /\ e = 0 /\ i = 0 /\ epochs = 0
    /\ \E u \in Units :
        /\ total_steps \in {u * t : t \in 0..MaxT}
        /\ checkpoint_every \in {u * c : c \in 1..MaxC}
        /\ total_iters \in {u * n : n \in 1..MaxN}
    /\ call = Call("new", NoName, FALSE, FALSE)
    /\ outcome = "ok"
    /\ events = <<>>
    /\ last_saved = store

Config == UNCHANGED <<total_steps, checkpoint_every, total_iters>>

BatchSizes == {MaxBatch - 1, MaxBatch}

\* torch.cuda.is_available()
cuda_available(n_gpus) == n_gpus >= 1

\* device selection without the divisibility check
select_device_unchecked(force_cpu, n_gpus, batch_size) ==
    IF ~force_cpu /\ cuda_available(n_gpus) THEN "cuda" ELSE "cpu"

\* the device main trains on, or "invalid" for
\* ValueError('`batch_size` must be evenly divisible by n_gpus!')
select_device(force_cpu, n_gpus, batch_size) ==
    IF ~force_cpu /\ cuda_available(n_gpus)
    THEN IF batch_size % n_gpus # 0 THEN "invalid" ELSE "cuda"
    ELSE "cpu"

\* a call of main with its command line and the devices it sees
MainCall(force_cpu, n_gpus, batch_size) ==
    [op |-> "main", name |-> NoName, cim |-> TRUE, killed |-> FALSE,
     force_cpu |-> force_cpu, n_gpus |-> n_gpus, batch_size |-> batch_size]

\* a process start: main selects the device, builds the model and the
\* optimizer, restores the latest checkpoint (creating it when missing) and
\* enters voc_train_loop
Main ==
    \E force_cpu \in BOOLEAN, n_gpus \in 0..MaxGpus, batch_size \in BatchSizes :
    LET r == restore_checkpoint(store, NoName, TRUE, 0, 0)
        ep == voc_epochs(total_steps, r.step, total_iters)
    IN
    /\ pc \in {"off", "done", "error"}
    /\ call' = MainCall(force_cpu, n_gpus, batch_size)
    /\ i' = 0
    /\ IF select_device(force_cpu, n_gpus, batch_size) = "invalid"
       THEN /\ outcome' = "invalid_batch_size"
            /\ events' = <<>>
            /\ step' = 0
            /\ optim' = 0
            /\ pc' = "error" /\ epochs' = 0 /\ e' = 0
            /\ UNCHANGED store
       ELSE /\ store' = Apply(store, r.ev)
            /\ outcome' = r.outcome
            /\ events' = r.ev
            /\ step' = r.step
            /\ optim' = r.optim
            /\ IF r.outcome = "broken"
               THEN pc' = "error" /\ epochs' = 0 /\ e' = 0
               ELSE /\ epochs' = ep
                    /\ IF ep >= 1
                       THEN pc' = "running" /\ e' = 1
                       ELSE pc' = "done" /\ e' = 0
    /\ Config
    /\ Tracked

\* one iteration of the inner loop: forward, backward, optimizer step, and
\* the periodic checkpoint when the step is a multiple of the interval
TrainIter ==
    \E g \in GradCases :
    LET s == forward_step(step)
        gs == grad_step(g, optim)
        o == gs.optim
        r == iter_checkpoint(store, s, o, checkpoint_every)
    IN
    /\ pc = "running"
    /\ i < total_iters
    /\ step' = s
    /\ optim' = o
    /\ i' = i + 1
    /\ store' = Apply(store, r.ev)
    /\ call' = Call("iter", NoName, FALSE, FALSE)
    /\ outcome' = r.outcome
    /\ events' = gs.ev \o r.ev
    /\ pc' = IF r.outcome = "broken" THEN "error" ELSE "running"
    /\ UNCHANGED <<e, epochs>>
    /\ Config
    /\ Tracked

\* the end of an epoch: the iterator ran out, the latest checkpoint is saved
EpochEnd ==
    LET r == epoch_checkpoint(store, step, optim) IN
    /\ pc = "running"
    /\ i = total_iters
    /\ store' = Apply(store, r.ev)
    /\ call' = Call("epoch_end", NoName, FALSE, FALSE)
    /\ outcome' = r.outcome
    /\ events' = r.ev
    /\ IF r.outcome = "broken"
       THEN pc' = "error" /\ UNCHANGED <<e, i>>
       ELSE IF e < epochs
       THEN pc' = "running" /\ e' = e + 1 /\ i' = 0
       ELSE pc' = "done" /\ UNCHANGED <<e, i>>
    /\ UNCHANGED <<step, optim, epochs>>
    /\ Config
    /\ Tracked

\* the events of the handler a running process executes next
NextEvents ==
    IF i < total_iters
    THEN iter_checkpoint(store, forward_step(step), optimizer_step(optim),
                         checkpoint_every).ev
    ELSE epoch_checkpoint(store, step, optim).ev

Dead ==
    /\ pc' = "off"
    /\ step' = 0
    /\ optim' = 0
    /\ e' = 0 /\ i' = 0 /\ epochs' = 0
    /\ outcome' = "killed"
    /\ Config
    /\ Tracked

\* the process is killed while training: between two handlers (k = 0) or
\* inside the next one, after k of its events
Kill ==
    /\ pc = "running"
    /\ \E k \in 0..(IF NextEvents = <<>> THEN 0 ELSE Len(NextEvents) - 1) :
        /\ store' = Apply(store, SubSeq(NextEvents, 1, k))
        /\ events' = SubSeq(NextEvents, 1, k)
        /\ call' = Call(IF i < total_iters THEN "iter" ELSE "epoch_end",
                        NoName, FALSE, TRUE)
    /\ Dead

\* the process is killed inside main's restore_checkpoint, after k >= 1
\* events of the save that creates the first checkpoint
KillMain ==
    LET r == restore_checkpoint(store, NoName, TRUE, 0, 0) IN
    /\ pc \in {"off", "done", "error"}
    /\ r.outcome = "saved"
    /\ \E k \in 1..(Len(r.ev) - 1) :
        /\ store' = Apply(store, SubSeq(r.ev, 1, k))
        /\ events' = SubSeq(r.ev, 1, k)
        /\ call' = Call("main", NoName, TRUE, TRUE)
    /\ Dead

Next == Main \/ TrainIter \/ EpochEnd \/ Kill \/ KillMain

Spec == Init /\ [][Next]_vars

(***************************************************************************)
(* Training runs together with other processes that call                   *)
(* restore_checkpoint on a freshly constructed model, one process at a     *)
(* time; the run parameters are the small ones                             *)
(***************************************************************************)
InitOps ==
    /\ Init
    /\ total_steps <= MaxT
    /\ checkpoint_every <= MaxC
    /\ total_iters <= MaxN

\* a process that builds a model and an optimizer, calls restore_checkpoint
\* once and exits
RestoreFresh ==
    \E name \in ApiNames, cim \in BOOLEAN :
        LET r == restore_checkpoint(store, name, cim, 0, 0) IN
        /\ pc \in {"off", "done", "error"}
        /\ store' = Apply(store, r.ev)
        /\ call' = Call("restore", name, cim, FALSE)
        /\ outcome' = r.outcome
        /\ events' = r.ev
        /\ pc' = "off"
        /\ step' = 0
        /\ optim' = 0
        /\ e' = 0 /\ i' = 0 /\ epochs' = 0
        /\ Config
        /\ Tracked

\* such a process, given a name, killed inside the save that creates the
\* checkpoint, after k >= 1 of its events (KillMain is the same without a
\* name); the optimizer's update count, which a later run adds to, is capped
RestoreFreshKilled ==
    \E name \in ApiNames \ {NoName} :
        LET r == restore_checkpoint(store, name, TRUE, 0, 0) IN
        /\ pc \in {"off", "done", "error"}
        /\ store[Latest].o <= 0
        /\ r.outcome # "restored"
        /\ \E k \in 1..(Len(r.ev) - 1) :
            /\ store' = Apply(store, SubSeq(r.ev, 1, k))
            /\ events' = SubSeq(r.ev, 1, k)
            /\ call' = Call("restore", name, TRUE, TRUE)
        /\ Dead

NextOps == Next \/ RestoreFresh \/ RestoreFreshKilled

SpecOps == InitOps /\ [][NextOps]_vars

(***************************************************************************)
(* Runs that are neither killed nor fail: the loop is a single thread of  *)
(* control, so a handler that can run does run                            *)
(***************************************************************************)
\* the steps a run is resumed from
StartSteps(total) ==
    {s \in {0, total \div 2, total} : 0 <= s /\ s <= total}

\* as Init, with no latest checkpoint or one saved at a step <= total_steps
InitResume ==
    /\ pc = "off"
    /\ step = 0
    /\ optim = 0
    /\ e = 0 /\ i = 0 /\ epochs = 0
    /\ \E u \in Units :
        /\ total_steps \in {u * t : t \in 0..MaxT}
        /\ checkpoint_every \in {u * c : c \in 1..MaxC}
        /\ total_iters \in {u * n : n \in 1..MaxN}
    /\ \/ store = NoFiles
       \/ \E s \in StartSteps(total_steps) :
            store = [NoFiles EXCEPT ![Latest] = [w |-> s, o |-> s]]
    /\ call = Call("new", NoName, FALSE, FALSE)
    /\ outcome = "ok"
    /\ events = <<>>
    /\ last_saved = store

\* a process start that reaches voc_train_loop
Started == Main /\ pc' # "error"

NextLoop == Started \/ TrainIter \/ EpochEnd

SpecLoop == InitResume /\ [][NextLoop]_vars /\ WF_vars(NextLoop)

(***************************************************************************)
(* Properties                                                              *)
(***************************************************************************)
\* every identity has both of its artifacts or neither
Whole(st) == \A id \in Ids : num_exist(st, id) \in {0, 2}

\* the step to the next state is a completed (un-killed) call of op
Completed(op) == call'.op = op /\ ~call'.killed

\* the identity that call is about
CallId == path_dict(call.name)

\* ceil(a / b) for b >= 1
CeilDiv(a, b) == (a + b - 1) \div b

\* the model step at which the current voc_train_loop was entered
RunStart == step - ((e - 1) * total_iters + i)

\* the smaller of two numbers
Min(a, b) == IF a <= b THEN a ELSE b

\* the last handler ran gen_testset
Generated == \E k \in 1..Len(events) : events[k].op = "gen"

\* C1: after a kill at any point of a run, a restore of latest that succeeds
\* loads weights and optimizer state written by the same save (same step)
C1_RestoreLoadsOneSave ==
    (call.op = "main" /\ ~call.killed /\ outcome = "restored")
        => (/\ Len(events) = 2
            /\ events[1].v = events[2].v
            /\ step = optim)

\* C2: from a store in which every identity has both artifacts or neither,
\* every completed save_checkpoint or restore_checkpoint call, returning or
\* raising, leaves every identity with both artifacts or neither
C2_PairInvariant ==
    [][(Whole(store) /\ (Completed("save") \/ Completed("restore")))
            => Whole(store')]_vars

C2_Witness ==
    /\ call.op = "save" /\ ~call.killed /\ call.name # NoName
    /\ outcome = "saved"
    /\ Whole(store)
    /\ num_exist(store, call.name) = 2
    /\ num_exist(store, Latest) = 2

\* C3: restore_checkpoint on an identity that has exactly one of its two
\* artifacts ends in the corrupted-checkpoint error for either value of
\* create_if_missing, and leaves the pair as it was
C3_HalfPairIsCorrupted ==
    [][(Completed("restore") /\ num_exist(store, path_dict(call'.name)) = 1)
            => (/\ outcome' = "broken"
                /\ store'[path_dict(call'.name)] = store[path_dict(call'.name)])]_vars

\* C4: restore_checkpoint with create_if_missing false on an identity that
\* has neither artifact fails with the missing-checkpoint error, loads
\* nothing and creates no artifact
C4_MissingNotCreated ==
    [][(/\ Completed("restore")
        /\ ~call'.cim
        /\ num_exist(store, path_dict(call'.name)) = 0)
            => (/\ outcome' = "missing"
                /\ store' = store
                /\ step' = step
                /\ optim' = optim)]_vars

C4_Witness ==
    /\ call.op = "restore" /\ ~call.killed /\ ~call.cim
    /\ outcome = "missing"
    /\ num_exist(store, CallId) = 0
    /\ events = <<>>
    /\ step > 0

\* C5 (as claimed): restore_checkpoint with create_if_missing true on an
\* identity that has neither artifact returns without error, with both
\* artifacts of the identity holding the model's current state and the
\* model's step unchanged
C5_CreatesWhenMissing ==
    [][(/\ Completed("restore")
        /\ call'.cim
        /\ num_exist(store, path_dict(call'.name)) = 0)
            => (/\ outcome' = "saved"
                /\ store'[path_dict(call'.name)] = [w |-> step, o |-> optim]
                /\ step' = step
                /\ optim' = optim)]_vars

\* C5 (amended): the same, except that with a name given and exactly one
\* artifact of latest present the call raises the broken-checkpoint error
\* and writes nothing
C5_CreatesUnlessLatestBroken ==
    [][(/\ Completed("restore")
        /\ call'.cim
        /\ num_exist(store, path_dict(call'.name)) = 0)
            => (/\ step' = step
                /\ optim' = optim
                /\ IF call'.name # NoName /\ num_exist(store, Latest) = 1
                   THEN outcome' = "broken" /\ store' = store
                   ELSE /\ outcome' = "saved"
                        /\ store'[path_dict(call'.name)]
                               = [w |-> step, o |-> optim])]_vars

C5_Witness ==
    /\ call.op = "restore" /\ ~call.killed /\ call.cim
    /\ call.name # NoName
    /\ outcome = "saved"
    /\ step > 0
    /\ store[CallId] = [w |-> step, o |-> optim]

\* C6 (as claimed): save_checkpoint on an identity that has exactly one of
\* its two artifacts does not raise and leaves both artifacts present
C6_SaveRepairsHalfPair ==
    [][(Completed("save") /\ num_exist(store, path_dict(call'.name)) = 1)
            => (/\ outcome' = "saved"
                /\ num_exist(store', path_dict(call'.name)) = 2)]_vars

\* C6 (amended): save_checkpoint on an identity that has exactly one of its
\* two artifacts raises the broken-checkpoint error and writes neither
\* artifact of that identity
C6_SaveRaisesOnHalfPair ==
    [][(Completed("save") /\ num_exist(store, path_dict(call'.name)) = 1)
            => (/\ outcome' = "broken"
                /\ store'[path_dict(call'.name)] = store[path_dict(call'.name)])]_vars

C6_Witness ==
    /\ call.op = "save" /\ ~call.killed
    /\ call.name # NoName
    /\ outcome = "broken"
    /\ num_exist(store, CallId) = 1
    /\ num_exist(store, Latest) = 2

\* C7 (as claimed): save_checkpoint called with a name leaves the latest
\* weights and the latest optimizer state unchanged
C7_NamedSaveKeepsLatest ==
    [][(Completed("save") /\ call'.name # NoName)
            => store'[Latest] = store[Latest]]_vars

\* C7 (amended): save_checkpoint called with a name first writes the latest
\* pair from the current model and optimizer, and raises without writing
\* anything when latest has exactly one artifact
C7_NamedSaveWritesLatest ==
    [][(Completed("save") /\ call'.name # NoName)
            => IF num_exist(store, Latest) = 1
               THEN outcome' = "broken" /\ store' = store
               ELSE store'[Latest] = [w |-> step, o |-> optim]]_vars

C7_Witness ==
    /\ call.op = "save" /\ ~call.killed
    /\ call.name # NoName
    /\ outcome = "saved"
    /\ step > 0
    /\ store[Latest] = [w |-> step, o |-> optim]
    /\ store[call.name] = [w |-> step, o |-> optim]

\* C8: at every epoch boundary, whatever the checkpoint interval, latest is
\* saved with the model's current step, so a restore of latest resumes at
\* exactly that step
C8_EpochBoundarySavesLatest ==
    (call.op = "epoch_end" /\ ~call.killed)
        => (/\ outcome = "saved"
            /\ store[Latest] = [w |-> step, o |-> optim]
            /\ restore_checkpoint(store, NoName, TRUE, 0, 0).step = step)

C8_Witness ==
    /\ call.op = "epoch_end" /\ ~call.killed
    /\ step > 0
    /\ step % checkpoint_every # 0
    /\ store[Latest].w = step

\* C9: for current_step <= total_steps the loop runs
\* ceil((total_steps - current_step) / iterations_per_epoch) epochs
C9_EpochsIsCeil ==
    (/\ call.op = "main" /\ ~call.killed
     /\ outcome \in {"saved", "restored"}
     /\ step <= total_steps)
        => EpochsRun(epochs) = CeilDiv(total_steps - step, total_iters)

\* C10: in a run started at step 0 a periodic checkpoint (generation, latest
\* and named save) is written exactly at the steps s with
\* 0 < s <= total_steps and s % checkpoint_every = 0
C10_PeriodicExactlyUpToTotal ==
    (call.op = "iter" /\ ~call.killed /\ RunStart = 0)
        => (Generated <=> (/\ 0 < step
                           /\ step <= total_steps
                           /\ step % checkpoint_every = 0))

\* C11: absent errors and kills, from every start step <= total_steps the
\* loop terminates, and from then on the step persisted in latest has
\* reached total_steps
C11_TerminatesAtTotal ==
    <>[](pc = "done" /\ store[Latest].w >= total_steps)

C11_Witness ==
    /\ pc = "done"
    /\ call.op = "epoch_end"
    /\ RunStart > 0
    /\ RunStart < total_steps
    /\ store[Latest].w >= total_steps

\* the last handler printed the not-a-number warning
Warned == \E k \in 1..Len(events) : events[k].op = "warn"

\* the last handler clipped the gradient norm
Clipped == \E k \in 1..Len(events) : events[k].op = "clip"

\* C12: every loop iteration, with or without a clip threshold and with or
\* without a not-a-number norm, applies the optimizer update and advances
\* the step by exactly one; a not-a-number norm only prints a warning and
\* does not end the run
C12_EveryIterationSteps ==
    [][Completed("iter")
            => (/\ step' = step + 1
                /\ optim' = optim + 1
                /\ i' = i + 1
                /\ (pc' = "running" \/ outcome' = "broken")
                /\ (Warned' => Clipped'))]_vars

C12_Witness ==
    /\ call.op = "iter" /\ ~call.killed
    /\ Warned
    /\ pc = "running"
    /\ step > 1
    /\ optim = step

\* C13: with an accelerator selected and a batch size the device count does
\* not divide, main fails with the sizing error before any step and before
\* any checkpoint artifact is created or loaded; with a batch size it
\* divides, or on the CPU, the validation passes
C13_BatchSizeValidated ==
    [][Completed("main")
            => IF /\ ~call'.force_cpu
                  /\ call'.n_gpus >= 1
                  /\ call'.batch_size % call'.n_gpus # 0
               THEN /\ outcome' = "invalid_batch_size"
                    /\ pc' = "error"
                    /\ store' = store
                    /\ events' = <<>>
                    /\ step' = 0
                    /\ optim' = 0
               ELSE outcome' \in {"saved", "restored", "broken"}]_vars

C13_Witness ==
    /\ call.op = "main" /\ ~call.killed
    /\ outcome = "invalid_batch_size"
    /\ call.n_gpus = 2
    /\ call.batch_size % 2 = 1
    /\ store[Latest].w > 0
    /\ step = 0

\* C14: for every identity and step n, a save of the identity followed by
\* any number of optimisation steps and no other save of it, then a restore
\* of the same identity, sets the model's step back to n and loads the
\* optimizer state that save wrote
C14_RestoreReturnsLastSave ==
    [][(/\ Completed("restore")
        /\ last_saved[path_dict(call'.name)].w # Absent)
            => (/\ outcome' = "restored"
                /\ step' = last_saved[path_dict(call'.name)].w
                /\ optim' = last_saved[path_dict(call'.name)].o
                /\ store' = store)]_vars

C14_Witness ==
    /\ call.op = "restore" /\ ~call.killed
    /\ call.name # NoName
    /\ outcome = "restored"
    /\ last_saved[CallId] = [w |-> 0, o |-> 0]
    /\ last_saved[Latest].w > 0
    /\ step = 0
    /\ optim = 0

\* C15: two periodic checkpoints taken at different steps write different
\* named identities, so a periodic checkpoint never overwrites a named
\* snapshot written at another step
C15_SnapshotsNotOverwritten ==
    [][(Completed("iter") /\ Generated')
            => store[ckpt_name(StepK(step'))].w \in {Absent, step'}]_vars

\* the generation and the file writes among the events evs, in order
FsEvents(evs) == SelectSeq(evs, LAMBDA ev : ev.op \in {"gen", "write"})

\* C16: at every step that is a multiple of the checkpoint interval the
\* events after the optimizer update are, in this order: generation, latest
\* weights, latest optimizer state, named weights, named optimizer state
C16_CheckpointEventOrder ==
    (call.op = "iter" /\ ~call.killed /\ step % checkpoint_every = 0)
        => FsEvents(events)
            = <<Ev("gen", NoName, "", step),
                Ev("write", Latest, "w", step),
                Ev("write", Latest, "o", optim),
                Ev("write", ckpt_name(StepK(step)), "w", step),
                Ev("write", ckpt_name(StepK(step)), "o", optim)>>

\* C17 (as claimed): over optimisation steps, periodic and epoch-boundary
\* saves, kills and restore_checkpoint calls on a fresh model (latest or
\* named, either flag) the step in the latest weights never decreases
C17_LatestStepMonotone ==
    [][store'[Latest].w >= store[Latest].w]_vars

\* C17 (amended): the same, except for a restore_checkpoint call with a
\* name and create_if_missing true whose named pair is not fully present:
\* it saves the fresh step-0 model, the latest pair first
C17_LatestStepMonotoneUnlessNamedCreate ==
    [][\/ store'[Latest].w >= store[Latest].w
       \/ /\ call'.op = "restore"
          /\ call'.name # NoName
          /\ call'.cim
          /\ num_exist(store, call'.name) # 2
          /\ store'[Latest].w = 0]_vars

C17_Witness ==
    /\ call.op = "restore" /\ ~call.killed
    /\ call.name = ckpt_name(1)
    /\ call.cim
    /\ outcome = "saved"
    /\ store[Latest].w = 0
    /\ store[ckpt_name(0)].w > 0

\* C18 (as claimed): a save_checkpoint call that raises the broken-checkpoint
\* error has written or changed no artifact of any identity
C18_SaveErrorWritesNothing ==
    [][(Completed("save") /\ outcome' = "broken") => store' = store]_vars

\* C18 (amended): a save_checkpoint call that raises the broken-checkpoint
\* error has written nothing when the latest pair is half-present; otherwise
\* a name was given whose pair is half-present, and the call has written the
\* latest pair, with the model's step and optimizer state, and nothing else
C18_SaveErrorWritesLatestOnly ==
    [][(Completed("save") /\ outcome' = "broken")
        => \/ /\ num_exist(store, Latest) = 1
              /\ store' = store
           \/ /\ num_exist(store, Latest) # 1
              /\ call'.name # NoName
              /\ num_exist(store, call'.name) = 1
              /\ store' = [store EXCEPT ![Latest] = [w |-> step, o |-> optim]]]_vars

C18_Witness ==
    /\ call.op = "save" /\ ~call.killed
    /\ call.name # NoName
    /\ outcome = "broken"
    /\ events # <<>>
    /\ num_exist(store, call.name) = 1
    /\ step > 0
    /\ store[Latest] = [w |-> step, o |-> optim]

\* C19: once main's restore has completed, at every point of the run the
\* model's step is at least the step in the latest weights and exceeds it by
\* at most min(checkpoint_every, iterations per epoch)
C19_BoundedLostWork ==
    pc \in {"running", "done"}
        => /\ 0 <= step - store[Latest].w
           /\ step - store[Latest].w <= Min(checkpoint_every, total_iters)

C19_Witness ==
    /\ pc = "running"
    /\ call.op = "iter" /\ ~call.killed
    /\ total_iters < checkpoint_every
    /\ step - store[Latest].w = total_iters
    /\ store[Latest].w > 0

====
